---- MODULE Spec2Model ----
(***************************************************************************)
(* A model of dhg-backup: the file categorizer (file_categorizer.py), the  *)
(* EXIF/video timestamp handler (exif_handler.py), the file processor      *)
(* (file_processor.py), the HEIC converter (heic_converter.py) and the     *)
(* command line run (cli_interface.py, main.py).                           *)
(*                                                                         *)
(* Python strings are sequences of one-character strings, so that          *)
(* lower(), suffix, stem, substring tests and strptime are computed as the *)
(* code computes them.                                                     *)
(***************************************************************************)
EXTENDS Integers, Sequences, FiniteSets, TLC

VARIABLES
    disk,               \* what the files on disk hold: [image: the content of every
                        \* existing file as Pillow sees it, video: what hachoir
                        \* makes of every existing video file]
    categorized_files,  \* FileCategorizer.categorized_files
    lastBatch,          \* the latest batch_categorize call: its argument, and
                        \* whether a grouping was held when it was made
    call,               \* the latest categorize_file call: path and outcome
    missing_exif_files, \* ExifHandler.missing_exif_files
    tsLog,              \* the extract_timestamp calls made: path and outcome
    fs,                 \* the directories: what export_dir is, the files under
                        \* it, and what backup_dir is
    processed_files,    \* FileProcessor.processed_files
    failed_files,       \* FileProcessor.failed_files
    used_timestamps,    \* FileProcessor.used_timestamps
    conversion_log,     \* FileProcessor.conversion_log
    run,                \* the latest process_all_files call: its argument, what
                        \* it returned, and the state it started from
    hfs,                \* the files and directories the converter works on
    converted_files,    \* HeicConverter.converted_files
    failed_conversions, \* HeicConverter.failed_conversions
    convLog,            \* the convert_heic_to_jpeg calls made: arguments, outcome,
                        \* and the state each started from
    cli                 \* the run of main(): where it stands, its dry_run flag,
                        \* the results it holds and how it exited

catVars == <<categorized_files, lastBatch, call>>
exifVars == <<missing_exif_files, tsLog>>
procVars == <<fs, processed_files, failed_files, used_timestamps, conversion_log, run>>
heicVars == <<hfs, converted_files, failed_conversions, convLog>>
cliVars == <<cli>>
vars == <<disk, catVars, exifVars, procVars, heicVars, cliVars>>

(***************************************************************************)
(* Bounds of the model.                                                    *)
(***************************************************************************)
MaxBatch == 2
MaxTags == 2
MaxLines == 2
MaxTsCalls == 2
MaxRuns == 2
MaxConversions == 2

(***************************************************************************)
(* Python string helpers.                                                  *)
(***************************************************************************)
UpperChars == <<"A","B","C","D","E","F","G","H","I","J","K","L","M","N","O","P","Q","R","S","T","U","V","W","X","Y","Z">>
LowerChars == <<"a","b","c","d","e","f","g","h","i","j","k","l","m","n","o","p","q","r","s","t","u","v","w","x","y","z">>

\* str.lower() on one character
UpperSet == {UpperChars[i] : i \in 1..26}
UpperIndex ==
    ("A" :> 1) @@ ("B" :> 2) @@ ("C" :> 3) @@ ("D" :> 4) @@ ("E" :> 5) @@
    ("F" :> 6) @@ ("G" :> 7) @@ ("H" :> 8) @@ ("I" :> 9) @@ ("J" :> 10) @@
    ("K" :> 11) @@ ("L" :> 12) @@ ("M" :> 13) @@ ("N" :> 14) @@ ("O" :> 15) @@
    ("P" :> 16) @@ ("Q" :> 17) @@ ("R" :> 18) @@ ("S" :> 19) @@ ("T" :> 20) @@
    ("U" :> 21) @@ ("V" :> 22) @@ ("W" :> 23) @@ ("X" :> 24) @@ ("Y" :> 25) @@
    ("Z" :> 26)
LowerChar(c) == IF c \in UpperSet THEN LowerChars[UpperIndex[c]] ELSE c

\* str.lower()
Lower(s) == [i \in 1..Len(s) |-> LowerChar(s[i])]

\* pat in s
Contains(s, pat) ==
    \E i \in 1..(Len(s) - Len(pat) + 1) : SubSeq(s, i, i + Len(pat) - 1) = pat

\* s.startswith(pat)
StartsWith(s, pat) == Len(s) >= Len(pat) /\ SubSeq(s, 1, Len(pat)) = pat

\* s.endswith(pat)
EndsWith(s, pat) ==
    Len(s) >= Len(pat) /\ SubSeq(s, Len(s) - Len(pat) + 1, Len(s)) = pat

\* s.count(c) for a one-character c
Count(s, c) == Cardinality({i \in 1..Len(s) : s[i] = c})

\* s.rfind(c) for a one-character c, 1-based; 0 when absent
RFind(s, c) ==
    LET at == {i \in 1..Len(s) : s[i] = c}
    IN  IF at = {} THEN 0 ELSE CHOOSE i \in at : \A j \in at : j <= i

\* pathlib: Path(p).name, the final path component
PathName(p) == SubSeq(p, RFind(p, "/") + 1, Len(p))

\* pathlib: the index of the dot that starts the suffix; 0 when the name has
\* no suffix (no dot, a leading dot only, or a trailing dot)
SuffixDot(name) ==
    LET i == RFind(name, ".")
    IN  IF 1 < i /\ i < Len(name) THEN i ELSE 0

\* pathlib: Path(p).suffix
PathSuffix(p) ==
    LET name == PathName(p)
        i == SuffixDot(name)
    IN  IF i = 0 THEN <<>> ELSE SubSeq(name, i, Len(name))

\* pathlib: Path(p).stem
PathStem(p) ==
    LET name == PathName(p)
        i == SuffixDot(name)
    IN  IF i = 0 THEN name ELSE SubSeq(name, 1, i - 1)

(***************************************************************************)
(* datetime and datetime.strptime.                                         *)
(***************************************************************************)
DigitVal ==
    ("0" :> 0) @@ ("1" :> 1) @@ ("2" :> 2) @@ ("3" :> 3) @@ ("4" :> 4) @@
    ("5" :> 5) @@ ("6" :> 6) @@ ("7" :> 7) @@ ("8" :> 8) @@ ("9" :> 9)

IsDigit(c) == c \in DOMAIN DigitVal

\* s[i] when i is an index of s, else the empty string
CharAt(s, i) == IF i \in 1..Len(s) THEN s[i] ELSE ""

\* the length of the run of characters of s from index i that are in set
RECURSIVE RunLen(_, _, _)
RunLen(s, i, set) ==
    IF i \in 1..Len(s) /\ s[i] \in set THEN 1 + RunLen(s, i + 1, set) ELSE 0

DigitRun(s, i) == RunLen(s, i, DOMAIN DigitVal)

\* int(s[i : i + n])
RECURSIVE Num(_, _, _)
Num(s, i, n) == IF n = 0 THEN 0 ELSE Num(s, i, n - 1) * 10 + DigitVal[s[i + n - 1]]

\* a datetime, or None
Datetime(Y, m, d, H, M, S) ==
    [none |-> FALSE, year |-> Y, month |-> m, day |-> d,
     hour |-> H, minute |-> M, second |-> S]
None ==
    [none |-> TRUE, year |-> 0, month |-> 0, day |-> 0,
     hour |-> 0, minute |-> 0, second |-> 0]

IsLeap(Y) == (Y % 4 = 0 /\ Y % 100 # 0) \/ Y % 400 = 0

DaysIn(Y, m) ==
    IF m = 2 THEN (IF IsLeap(Y) THEN 29 ELSE 28)
    ELSE IF m \in {4, 6, 9, 11} THEN 30 ELSE 31

\* s from index i cut into tokens: a run of digits (its length and its
\* value), a run of blanks, or one other character
RECURSIVE Tokens(_, _)
Tokens(s, i) ==
    IF i > Len(s) THEN <<>>
    ELSE IF IsDigit(s[i])
    THEN <<[kind |-> "num", len |-> DigitRun(s, i), val |-> Num(s, i, DigitRun(s, i))]>>
         \o Tokens(s, i + DigitRun(s, i))
    ELSE IF s[i] = " "
    THEN <<[kind |-> "blank", len |-> RunLen(s, i, {" "}), val |-> 0]>>
         \o Tokens(s, i + RunLen(s, i, {" "}))
    ELSE <<[kind |-> s[i], len |-> 1, val |-> 0]>> \o Tokens(s, i + 1)

\* the datetime of the fields read by strptime, when there is one
FieldsToDatetime(t) ==
    IF /\ t[1].val >= 1 /\ t[3].val \in 1..12
       /\ t[5].val \in 1..DaysIn(t[1].val, t[3].val)
       /\ t[7].val \in 0..23 /\ t[9].val \in 0..59 /\ t[11].val \in 0..59
    THEN [ok |-> TRUE,
          value |-> Datetime(t[1].val, t[3].val, t[5].val,
                             t[7].val, t[9].val, t[11].val)]
    ELSE [ok |-> FALSE, value |-> None]

\* datetime.strptime(s, "%Y<dsep>%m<dsep>%d %H:%M:%S"): [ok, value], ok FALSE
\* for the ValueError.  %Y is four digits, the other fields one or two; the
\* blank of the format matches one or more blanks; nothing may follow.
StrptimeTokens(t, dsep) ==
    IF /\ Len(t) = 11
       /\ [k \in 1..11 |-> t[k].kind]
              = <<"num", dsep, "num", dsep, "num", "blank", "num", ":", "num", ":", "num">>
       /\ t[1].len = 4
       /\ \A k \in {3, 5, 7, 9, 11} : t[k].len \in 1..2
    THEN FieldsToDatetime(t)
    ELSE [ok |-> FALSE, value |-> None]

Strptime(s, dsep) == StrptimeTokens(Tokens(s, 1), dsep)

(***************************************************************************)
(* The files the categorizer is run on.                                    *)
(***************************************************************************)
UuidJpg == <<"1","2","3","4","5","6","7","8","-","1","2","3","4","-","1","2","3","4","-","1","2","3","4","-","1","2","3","4","5","6","7","8","9","a","b","c",".","j","p","g">>
UuidPng == <<"1","2","3","4","5","6","7","8","-","1","2","3","4","-","1","2","3","4","-","1","2","3","4","-","1","2","3","4","5","6","7","8","9","a","b","c",".","p","n","g">>
GoneJpg == <<"g","o","n","e",".","j","p","g">>

CatPaths ==
    { <<"n","o","t","e",".","a","a","e">>, <<"N","O","T","E",".","A","A","E">>, <<"I","M","G","_","3","0","4","2",".","p","n","g">>, <<"I","M","G","_","1","2","3","4",".","p","n","g">>, <<"p","i","c",".","p","n","g">>,
      <<"S","c","r","e","e","n"," ","S","h","o","t"," ","1",".","P","N","G">>, <<"p","h","o","t","o",".","H","E","I","C">>, <<"a",".","j","p","g">>, <<"c","a","p","t","u","r","e",".","j","p","g">>,
      <<"c","l","i","p",".","m","o","v">>, <<"w","e","i","r","d",".","x","y","z">>, <<".","p","n","g">>, <<"x",".","a","a","e","/","b",".","j","p","e","g">>, <<"n","o","e","x","t">>,
      UuidJpg, UuidPng, GoneJpg }

\* paths that name no file on disk
MissingPaths == { GoneJpg }

\* the paths batch_categorize is given lists of
BatchPool ==
    { <<"n","o","t","e",".","a","a","e">>, <<"I","M","G","_","3","0","4","2",".","p","n","g">>, <<"p","i","c",".","p","n","g">>, <<"c","l","i","p",".","m","o","v">>, <<"w","e","i","r","d",".","x","y","z">>, GoneJpg }

\* the paths already grouped when single files are classified
ClassifyPool == { <<"n","o","t","e",".","a","a","e">>, <<"p","i","c",".","p","n","g">> }

\* one item of image.getexif(): the tag name, str(value), and whether the
\* value is a str
ExifEntry(tag, value) == [tag |-> tag, value |-> value, str |-> TRUE]
BytesEntry(tag, value) == [tag |-> tag, value |-> value, str |-> FALSE]

Absent == [exists |-> FALSE, image |-> FALSE, text |-> <<>>, exif |-> <<>>]
Corrupt == [exists |-> TRUE, image |-> FALSE, text |-> <<>>, exif |-> <<>>]

CatTexts == { <<>>, << <<"O","p","e","n","A","I"," ","D","A","L","L","-","E">> >>, << <<"A","u","t","h","o","r"," ","B","o","b">> >> }

CatExifs ==
    { <<>>,
      << ExifEntry("Software", <<"A","d","o","b","e"," ","P","h","o","t","o","s","h","o","p">>) >>,
      << ExifEntry("Software", <<"A","d","o","b","e"," ","P","h","o","t","o","s","h","o","p">>),
         ExifEntry("DateTimeOriginal", <<"2","0","2","4",":","0","5",":","0","1"," ","1","2",":","0","0",":","0","0">>) >>,
      << ExifEntry("Software", <<"A","d","o","b","e"," ","P","h","o","t","o","s","h","o","p">>),
         ExifEntry("DateTime", <<"2","0","2","4",":","0","5",":","0","1"," ","1","2",":","0","0",":","0","0">>) >>,
      << ExifEntry("Software", <<"1","7",".","4",".","1">>) >>,
      << ExifEntry("DateTimeDigitized", <<"2","0","2","4",":","0","5",":","0","1"," ","1","2",":","0","0",":","0","0">>) >> }

VIDEO_FIELDS == <<"creation_date", "date", "creation_time", "media_creation">>

\* an attribute of the hachoir metadata object: absent, raising when read,
\* or holding a value (a datetime, or None for any falsy value)
AttrAbsent == [state |-> "absent", value |-> None]
AttrRaises == [state |-> "raise", value |-> None]
AttrValue(v) == [state |-> "value", value |-> v]

NoAttrs == [f \in {VIDEO_FIELDS[i] : i \in 1..4} |-> AttrAbsent]

\* what hachoir makes of a video file: whether the import of hachoir
\* succeeded, createParser ("ok", "none" or "raise"), whether
\* extractMetadata returns a truthy object, its attributes, and
\* exportPlaintext() (None, or the lines)
Video(hachoir, parser, metadata, attrs, noText, lines) ==
    [hachoir |-> hachoir, parser |-> parser, metadata |-> metadata,
     attrs |-> attrs, noText |-> noText, lines |-> lines]

NoHachoir == Video(FALSE, "none", FALSE, NoAttrs, TRUE, <<>>)

\* os.path.exists / Image.open: what the path names on disk
FileAt(file_path) == IF file_path \in MissingPaths THEN Absent ELSE disk.image

CatContents ==
    {Corrupt} \cup
    { [exists |-> TRUE, image |-> TRUE, text |-> t, exif |-> e] :
          t \in CatTexts, e \in CatExifs }

(***************************************************************************)
(* file_categorizer.py                                                     *)
(***************************************************************************)
PHOTO == "photos"
VIDEO == "videos"
SCREENSHOT == "screenshots"
GENERATED == "generated"
UNKNOWN == "unknown"
SIDECAR == "sidecar"

FileCategory == {PHOTO, VIDEO, SCREENSHOT, GENERATED, UNKNOWN, SIDECAR}

PHOTO_EXTENSIONS ==
    { <<".","j","p","g">>, <<".","j","p","e","g">>, <<".","p","n","g">>, <<".","g","i","f">>, <<".","h","e","i","c">>, <<".","h","e","i","f">>,
      <<".","t","i","f","f">>, <<".","t","i","f">>, <<".","b","m","p">>, <<".","w","e","b","p">>, <<".","d","n","g">>, <<".","r","a","w">>,
      <<".","c","r","2">>, <<".","n","e","f">>, <<".","a","r","w">>, <<".","o","r","f">>, <<".","r","w","2">> }

VIDEO_EXTENSIONS ==
    { <<".","m","o","v">>, <<".","m","p","4">>, <<".","m","4","v">>, <<".","a","v","i">>, <<".","m","k","v">>, <<".","w","m","v">>,
      <<".","f","l","v">>, <<".","w","e","b","m">>, <<".","3","g","p">>, <<".","m","p","g">>, <<".","m","p","e","g">> }

SCREENSHOT_EXTENSIONS == { <<".","p","n","g">> }

SIDECAR_EXTENSIONS == { <<".","a","a","e">> }

\* __init__: the extension sets, lower-cased
photo_exts == {Lower(ext) : ext \in PHOTO_EXTENSIONS}
video_exts == {Lower(ext) : ext \in VIDEO_EXTENSIONS}
screenshot_exts == {Lower(ext) : ext \in SCREENSHOT_EXTENSIONS}
sidecar_exts == {Lower(ext) : ext \in SIDECAR_EXTENSIONS}

\* __init__: the empty grouping
EmptyGrouping == [c \in FileCategory |-> <<>>]

screenshot_patterns ==
    { <<"s","c","r","e","e","n","s","h","o","t">>, <<"s","c","r","e","e","n"," ","s","h","o","t">>, <<"i","m","g","_">>, <<"s","i","m","u","l","a","t","o","r"," ","s","c","r","e","e","n"," ","s","h","o","t">>,
      <<"s","c","r","e","e","n"," ","r","e","c","o","r","d","i","n","g">>, <<"i","m","g","_","3">>, <<"s","c","r","e","e","n","_">>, <<"c","a","p","t","u","r","e">> }

_is_likely_screenshot(filename) ==
    IF StartsWith(filename, <<"i","m","g","_","3">>) /\ EndsWith(filename, <<".","p","n","g">>)
    THEN TRUE
    ELSE \E pattern \in screenshot_patterns : Contains(filename, pattern)

AI_MARKERS == { <<"g","p","t">>, <<"c","h","a","t","g","p","t">>, <<"o","p","e","n","a","i">>, <<"c","2","p","a">>, <<"a","i">>, <<"g","e","n","e","r","a","t","e","d">> }

EDITORS == { <<"s","n","a","p","s","e","e","d">>, <<"p","h","o","t","o","s","h","o","p">>, <<"l","i","g","h","t","r","o","o","m">>, <<"g","i","m","p">>, <<"c","a","n","v","a">> }

\* The body of the try block of _is_generated_content: "raise" when
\* Image.open raises, else the value returned inside the block, else
\* "fall" when the block ends without returning.
GeneratedProbe(file_path) ==
    LET c == FileAt(file_path)
        text_hit ==
            /\ EndsWith(Lower(file_path), <<".","p","n","g">>)
            /\ \E k \in 1..Len(c.text) :
                   \E ai_marker \in AI_MARKERS : Contains(Lower(c.text[k]), ai_marker)
        has_editing_software ==
            \E k \in 1..Len(c.exif) :
                /\ c.exif[k].tag = "Software"
                /\ \E editor \in EDITORS : Contains(Lower(c.exif[k].value), editor)
        has_original_timestamp ==
            \E k \in 1..Len(c.exif) :
                c.exif[k].tag \in {"DateTimeOriginal", "DateTimeDigitized"}
        filename == PathStem(file_path)
    IN  IF ~(c.exists /\ c.image) THEN "raise"
        ELSE IF text_hit THEN "true"
        ELSE IF Len(c.exif) > 0 /\ has_editing_software /\ ~has_original_timestamp
             THEN "true"
        ELSE IF Len(filename) = 36 /\ Count(filename, "-") = 4 THEN "true"
        ELSE "fall"

\* _is_generated_content without its except clause
_is_generated_content_no_except(file_path) ==
    LET r == GeneratedProbe(file_path)
    IN  [raised |-> (r = "raise"), value |-> (r = "true")]

\* _is_generated_content: the except clause swallows the exception
_is_generated_content(file_path) ==
    LET r == GeneratedProbe(file_path)
    IN  [raised |-> FALSE, value |-> (r = "true")]

\* categorize_file with the content probe of a PNG asked before its filename
categorize_file_probe_first(file_path) ==
    LET ext == Lower(PathSuffix(file_path))
        filename == Lower(PathName(file_path))
        gen == _is_generated_content(file_path)
    IN  IF ext \in sidecar_exts THEN [raised |-> FALSE, category |-> SIDECAR]
        ELSE IF ext \in photo_exts THEN
            IF gen.raised THEN [raised |-> TRUE, category |-> UNKNOWN]
            ELSE IF gen.value THEN [raised |-> FALSE, category |-> GENERATED]
            ELSE IF ext \in screenshot_exts /\ _is_likely_screenshot(filename)
            THEN [raised |-> FALSE, category |-> SCREENSHOT]
            ELSE [raised |-> FALSE, category |-> PHOTO]
        ELSE IF ext \in video_exts THEN [raised |-> FALSE, category |-> VIDEO]
        ELSE [raised |-> FALSE, category |-> UNKNOWN]

\* categorize_file: [raised, category]
categorize_file(file_path) ==
    LET ext == Lower(PathSuffix(file_path))
        filename == Lower(PathName(file_path))
        gen == _is_generated_content(file_path)
    IN  IF ext \in sidecar_exts THEN [raised |-> FALSE, category |-> SIDECAR]
        ELSE IF ext \in screenshot_exts THEN
            IF _is_likely_screenshot(filename)
            THEN [raised |-> FALSE, category |-> SCREENSHOT]
            ELSE IF gen.raised THEN [raised |-> TRUE, category |-> UNKNOWN]
            ELSE IF gen.value THEN [raised |-> FALSE, category |-> GENERATED]
            ELSE [raised |-> FALSE, category |-> PHOTO]
        ELSE IF ext \in photo_exts THEN
            IF gen.raised THEN [raised |-> TRUE, category |-> UNKNOWN]
            ELSE IF gen.value THEN [raised |-> FALSE, category |-> GENERATED]
            ELSE [raised |-> FALSE, category |-> PHOTO]
        ELSE IF ext \in video_exts THEN [raised |-> FALSE, category |-> VIDEO]
        ELSE [raised |-> FALSE, category |-> UNKNOWN]

\* batch_categorize, the loop over file_paths: [raised, grouping]; an
\* exception out of categorize_file would leave the loop where it stands
RECURSIVE BatchLoop(_, _)
BatchLoop(grouping, file_paths) ==
    IF file_paths = <<>> THEN [raised |-> FALSE, grouping |-> grouping]
    ELSE LET file_path == Head(file_paths)
         IN  IF ~FileAt(file_path).exists
             THEN BatchLoop(grouping, Tail(file_paths))
             ELSE LET r == categorize_file(file_path)
                  IN  IF r.raised THEN [raised |-> TRUE, grouping |-> grouping]
                      ELSE BatchLoop(
                               [grouping EXCEPT ![r.category] = Append(@, file_path)],
                               Tail(file_paths))

\* batch_categorize without the clearing of the lists
batch_categorize_additive(grouping, file_paths) == BatchLoop(grouping, file_paths)

\* the loop of batch_categorize without the os.path.exists test
RECURSIVE BatchLoopUnchecked(_, _)
BatchLoopUnchecked(grouping, file_paths) ==
    IF file_paths = <<>> THEN [raised |-> FALSE, grouping |-> grouping]
    ELSE LET r == categorize_file(Head(file_paths))
         IN  IF r.raised THEN [raised |-> TRUE, grouping |-> grouping]
             ELSE BatchLoopUnchecked(
                      [grouping EXCEPT ![r.category] = Append(@, Head(file_paths))],
                      Tail(file_paths))

\* batch_categorize classifying the paths that name no file too
batch_categorize_unchecked(grouping, file_paths) ==
    BatchLoopUnchecked([c \in FileCategory |-> <<>>], file_paths)

\* batch_categorize: every list is cleared, then the loop runs
batch_categorize(grouping, file_paths) ==
    BatchLoop([c \in FileCategory |-> <<>>], file_paths)

\* get_files_by_category
get_files_by_category(grouping, category) == grouping[category]

\* get_sidecar_files
get_sidecar_files(grouping) == get_files_by_category(grouping, SIDECAR)

\* get_processable_files handing out every list
get_processable_files_all(grouping) ==
    [c \in FileCategory |-> get_files_by_category(grouping, c)]

\* get_processable_files
get_processable_files(grouping) ==
    [c \in {PHOTO, VIDEO, SCREENSHOT, GENERATED} |-> get_files_by_category(grouping, c)]

RECURSIVE SumLen(_, _)
SumLen(grouping, cats) ==
    IF cats = {} THEN 0
    ELSE LET c == CHOOSE x \in cats : TRUE
         IN  Len(grouping[c]) + SumLen(grouping, cats \ {c})

\* get_categorization_stats
get_categorization_stats(grouping) ==
    [photos |-> Len(grouping[PHOTO]),
     videos |-> Len(grouping[VIDEO]),
     screenshots |-> Len(grouping[SCREENSHOT]),
     generated |-> Len(grouping[GENERATED]),
     unknown |-> Len(grouping[UNKNOWN]),
     sidecar |-> Len(grouping[SIDECAR]),
     total |-> SumLen(grouping, DOMAIN grouping)]

(***************************************************************************)
(* exif_handler.py                                                         *)
(* An operation on the handler is [raised, value, missing]: whether it     *)
(* raised, the datetime or None it returned, and missing_exif_files after  *)
(* it.                                                                     *)
(***************************************************************************)
TIMESTAMP_TAGS == <<"DateTimeOriginal", "DateTimeDigitized", "DateTime">>

TimestampTagSet == {TIMESTAMP_TAGS[i] : i \in 1..Len(TIMESTAMP_TAGS)}

\* _is_video_file
_is_video_file(file_path) == Lower(PathSuffix(file_path)) \in VIDEO_EXTENSIONS

\* _parse_exif_datetime without the recording of the file on a ValueError
_parse_exif_datetime_unrecorded(missing, entry, file_path) ==
    IF ~entry.str THEN [raised |-> TRUE, value |-> None, missing |-> missing]
    ELSE LET r == Strptime(entry.value, ":")
         IN  [raised |-> FALSE, value |-> r.value, missing |-> missing]

\* _parse_exif_datetime: the ValueError of strptime is caught and the file
\* recorded; the TypeError for a value that is no str is not caught here
_parse_exif_datetime(missing, entry, file_path) ==
    IF ~entry.str THEN [raised |-> TRUE, value |-> None, missing |-> missing]
    ELSE LET r == Strptime(entry.value, ":")
         IN  IF r.ok THEN [raised |-> FALSE, value |-> r.value, missing |-> missing]
             ELSE [raised |-> FALSE, value |-> None,
                   missing |-> Append(missing, file_path)]

\* the index of the first item of exif_data whose tag is a timestamp tag;
\* 0 when there is none
FirstTimestampItem(exif_data) ==
    LET at == {k \in 1..Len(exif_data) : exif_data[k].tag \in TimestampTagSet}
    IN  IF at = {} THEN 0 ELSE CHOOSE k \in at : \A j \in at : k <= j

\* the direct fields of the video metadata: the value of the first field,
\* in the order of VIDEO_FIELDS, that hasattr finds and getattr returns
RECURSIVE DirectField(_, _)
DirectField(attrs, i) ==
    IF i > Len(VIDEO_FIELDS) THEN None
    ELSE IF attrs[VIDEO_FIELDS[i]].state = "value" THEN attrs[VIDEO_FIELDS[i]].value
    ELSE DirectField(attrs, i + 1)

DATE_KEYWORDS == { <<"c","r","e","a","t","i","o","n">>, <<"d","a","t","e">>, <<"t","i","m","e">> }

\* whether \d{4}-\d{2}-\d{2}[T ]\d{2}:\d{2}:\d{2} matches line at index i
DateMatchAt(line, i) ==
    /\ i + 18 <= Len(line)
    /\ \A j \in {0, 1, 2, 3, 5, 6, 8, 9, 11, 12, 14, 15, 17, 18} : IsDigit(line[i + j])
    /\ line[i + 4] = "-" /\ line[i + 7] = "-"
    /\ line[i + 10] \in {"T", " "}
    /\ line[i + 13] = ":" /\ line[i + 16] = ":"

\* re.search: the index of the leftmost match; 0 when there is none
DateSearch(line) ==
    LET at == {i \in 1..Len(line) : DateMatchAt(line, i)}
    IN  IF at = {} THEN 0 ELSE CHOOSE i \in at : \A j \in at : i <= j

\* str.replace('T', ' ')
ReplaceT(s) == [i \in 1..Len(s) |-> IF s[i] = "T" THEN " " ELSE s[i]]

\* the scan of the lines of exportPlaintext(): the first line that holds a
\* keyword and a date match that strptime accepts gives the value; an
\* exception inside the try of a line moves on to the next line
RECURSIVE ScanLines(_)
ScanLines(lines) ==
    IF lines = <<>> THEN None
    ELSE LET line == Head(lines)
             line_lower == Lower(line)
             i == DateSearch(line)
             r == Strptime(ReplaceT(SubSeq(line, i, i + 18)), "-")
         IN  IF /\ \E keyword \in DATE_KEYWORDS : Contains(line_lower, keyword)
                /\ i # 0
                /\ r.ok
             THEN r.value
             ELSE ScanLines(Tail(lines))

\* _extract_video_timestamp
_extract_video_timestamp(missing, file_path) ==
    LET v == disk.video
        recorded == [raised |-> FALSE, value |-> None,
                     missing |-> Append(missing, file_path)]
        direct == DirectField(v.attrs, 1)
        creation_date == IF ~direct.none THEN direct ELSE ScanLines(v.lines)
    IN  IF ~v.hachoir THEN recorded
        ELSE IF file_path \in MissingPaths \/ v.parser = "raise" THEN recorded
        ELSE IF v.parser = "none" THEN recorded
        ELSE IF ~v.metadata THEN recorded
        ELSE IF direct.none /\ v.noText THEN recorded
        ELSE IF ~creation_date.none
             THEN [raised |-> FALSE, value |-> creation_date, missing |-> missing]
        ELSE recorded

\* extract_timestamp
extract_timestamp(missing, file_path) ==
    LET c == FileAt(file_path)
        recorded == [raised |-> FALSE, value |-> None,
                     missing |-> Append(missing, file_path)]
        exif_data == c.exif
        k == FirstTimestampItem(exif_data)
        parsed == _parse_exif_datetime(missing, exif_data[k], file_path)
    IN  IF _is_video_file(file_path) THEN _extract_video_timestamp(missing, file_path)
        ELSE IF ~(c.exists /\ c.image) THEN recorded
        ELSE IF Len(exif_data) = 0 THEN recorded
        ELSE IF k # 0 THEN (IF parsed.raised THEN recorded ELSE parsed)
        ELSE recorded

(***************************************************************************)
(* file_processor.py                                                       *)
(***************************************************************************)
export_dir == <<"e","x","p","o","r","t">>
backup_dir == <<"b","a","c","k","u","p">>

\* os.path.join(root, filename)
PathJoin(root, filename) == root \o <<"/">> \o filename

\* the files that may lie under export_dir, in the order os.walk lists
\* them: the directory and the filename of each
ExportPool ==
    << [root |-> export_dir, filename |-> <<"I","M","G","_","3","0","4","2",".","p","n","g">>],
       [root |-> export_dir, filename |-> <<".","D","S","_","S","t","o","r","e">>],
       [root |-> export_dir, filename |-> <<"n","o","t","e",".","a","a","e">>],
       [root |-> PathJoin(export_dir, <<".","t","h","u","m","b","s">>), filename |-> <<"a",".","j","p","g">>],
       [root |-> PathJoin(export_dir, <<"s","u","b">>), filename |-> <<"c","l","i","p",".","m","o","v">>] >>

\* a filesystem: export is "dir", "file" or "absent", present the indices
\* in ExportPool of the files under it, backup is "dir", "absent", or
\* "blocked" for an absent directory that mkdir cannot create
Filesystem(export, present, backup) ==
    [export |-> export, present |-> present, backup |-> backup]

EmptyExport == Filesystem("dir", {}, "dir")

\* the summary dictionary, or the exception that left process_all_files
Summary(processed, failed) ==
    [kind |-> "summary",
     files_processed |-> Len(processed), files_failed |-> Len(failed),
     processed_files |-> processed, failed_files |-> failed]
Raised == [kind |-> "raised", files_processed |-> 0, files_failed |-> 0,
           processed_files |-> <<>>, failed_files |-> <<>>]

\* the fields of a FileProcessor
Processor(processed, failed, used, log) ==
    [processed_files |-> processed, failed_files |-> failed,
     used_timestamps |-> used, conversion_log |-> log]

\* __init__
NewProcessor == Processor(<<>>, <<>>, {}, <<>>)

\* _scan_export_directory: the loop of os.walk from index i of the listing
RECURSIVE WalkFrom(_, _)
WalkFrom(f, i) ==
    IF i > Len(ExportPool) THEN <<>>
    ELSE IF i \in f.present /\ ~StartsWith(ExportPool[i].filename, <<".">>)
    THEN <<PathJoin(ExportPool[i].root, ExportPool[i].filename)>> \o WalkFrom(f, i + 1)
    ELSE WalkFrom(f, i + 1)

\* _scan_export_directory
_scan_export_directory(f) == IF f.export # "dir" THEN <<>> ELSE WalkFrom(f, 1)

\* _generate_summary
_generate_summary(p) == Summary(p.processed_files, p.failed_files)

\* ensure_target_directory: [raised, fs, created_dirs]
ensure_target_directory(f, base_backup_dir) ==
    IF f.backup = "dir"
    THEN [raised |-> FALSE, fs |-> f, created_dirs |-> <<>>]
    ELSE IF f.backup = "blocked"
    THEN [raised |-> TRUE, fs |-> f, created_dirs |-> <<>>]
    ELSE [raised |-> FALSE, fs |-> [f EXCEPT !.backup = "dir"],
          created_dirs |-> <<base_backup_dir>>]

\* _process_single_file: a docstring and no statement
_process_single_file(p, f, file_path, target_dir, dry_run) == [processor |-> p, fs |-> f]

\* process_all_files creating the backup directory in a dry run too
process_all_files_always_mkdir(p, f, dry_run) ==
    LET all_files == _scan_export_directory(f)
        made == ensure_target_directory(f, backup_dir)
    IN  IF all_files = <<>>
        THEN [ret |-> _generate_summary(p), processor |-> p, fs |-> f]
        ELSE IF made.raised
        THEN [ret |-> Raised, processor |-> p, fs |-> made.fs]
        ELSE [ret |-> _generate_summary(p), processor |-> p, fs |-> made.fs]

\* process_all_files: [ret, processor, fs]
process_all_files(p, f, dry_run) ==
    LET all_files == _scan_export_directory(f)
        made == ensure_target_directory(f, backup_dir)
    IN  IF all_files = <<>>
        THEN [ret |-> _generate_summary(p), processor |-> p, fs |-> f]
        ELSE IF ~dry_run
        THEN IF made.raised
             THEN [ret |-> Raised, processor |-> p, fs |-> made.fs]
             ELSE [ret |-> _generate_summary(p), processor |-> p, fs |-> made.fs]
        ELSE [ret |-> _generate_summary(p), processor |-> p, fs |-> f]

\* the FileProcessor held in the variables
ThisProcessor ==
    Processor(processed_files, failed_files, used_timestamps, conversion_log)

NoRun == [n |-> 0, dry_run |-> FALSE, ret |-> Raised,
          before |-> EmptyExport, processor |-> NewProcessor]

\* FileProcessor.__init__
ProcessorInit ==
    /\ processed_files = <<>>
    /\ failed_files = <<>>
    /\ used_timestamps = {}
    /\ conversion_log = <<>>
    /\ run = NoRun

(***************************************************************************)
(* heic_converter.py                                                       *)
(* The converter works on hfs = [files, dirs]: what every path holds       *)
(* ("absent", "corrupt", "heic", "jpeg", "converted", or "partial" for a   *)
(* file a failed save left behind) and what every directory is ("dir",     *)
(* "absent", or "blocked" for one mkdir cannot create).                    *)
(***************************************************************************)
\* str(Path(p).parent)
PathParent(p) ==
    LET i == RFind(p, "/")
    IN  IF i = 0 THEN <<".">> ELSE IF i = 1 THEN <<"/">> ELSE SubSeq(p, 1, i - 1)

\* str(Path(dir) / name)
PathUnder(dir, name) == IF dir = <<".">> THEN name ELSE PathJoin(dir, name)

\* is_heic_file
is_heic_file(file_path) == Lower(PathSuffix(file_path)) \in { <<".","h","e","i","c">>, <<".","h","e","i","f">> }

\* the paths convert_heic_to_jpeg is called on, and the values of output_dir
\* (<<>> stands for None)
HeicSources == { <<"p","h","o","t","o",".","h","e","i","c">>, <<"a","/","p","h","o","t","o",".","H","E","I","C">>, <<"p","h","o","t","o",".","j","p","g">>, <<"b","a","d",".","h","e","i","f">>, <<"g","o","n","e",".","h","e","i","c">> }
OutputDirs == { <<>>, <<"o","u","t">> }

\* convert_heic_to_jpeg, lines 61-66: the output path
output_path(heic_path, output_dir) ==
    IF output_dir # <<>>
    THEN PathUnder(output_dir, PathStem(heic_path) \o <<".","j","p","g">>)
    ELSE PathUnder(PathParent(heic_path), PathStem(heic_path) \o <<".","j","p","g">>)

HeicFiles ==
    HeicSources \cup {output_path(h, d) : h \in HeicSources, d \in OutputDirs}

HeicDirs == {PathParent(f) : f \in HeicFiles}

\* the files at the start: photo.heic and a/photo.HEIC are HEIC images,
\* bad.heif is no image, gone.heic does not exist, photo.jpg holds jpg, and
\* the directory out is what out says
HeicDisk(jpg, out) ==
    [files |-> [f \in HeicFiles |->
                    IF f \in { <<"p","h","o","t","o",".","h","e","i","c">>, <<"a","/","p","h","o","t","o",".","H","E","I","C">> } THEN "heic"
                    ELSE IF f = <<"b","a","d",".","h","e","i","f">> THEN "corrupt"
                    ELSE IF f = <<"p","h","o","t","o",".","j","p","g">> THEN jpg
                    ELSE "absent"],
     dirs |-> [d \in HeicDirs |-> IF d = <<"o","u","t">> THEN out ELSE "dir"]]

\* the contents Image.open accepts
Openable == {"heic", "jpeg", "converted"}

\* the returned path, or None
NoPath == [none |-> TRUE, path |-> <<>>]
SomePath(p) == [none |-> FALSE, path |-> p]

\* the fields of a HeicConverter
Converter(converted, failed) ==
    [converted_files |-> converted, failed_conversions |-> failed]

\* convert_heic_to_jpeg: [raised, ret, converter, hfs]; save is what
\* image.save does: "ok", "fail" before the output file is opened, or
\* "partial" after
convert_heic_to_jpeg(conv, h, heic_path, output_dir, save) ==
    LET out == output_path(heic_path, output_dir)
        parent == PathParent(out)
        made == [h EXCEPT !.dirs[parent] = "dir"]
        failed(cause, h2) ==
            [raised |-> FALSE, ret |-> NoPath,
             converter |-> Converter(conv.converted_files,
                                     Append(conv.failed_conversions, <<heic_path, cause>>)),
             hfs |-> h2]
    IN  IF ~is_heic_file(heic_path)
        THEN [raised |-> FALSE, ret |-> NoPath, converter |-> conv, hfs |-> h]
        ELSE IF h.dirs[parent] = "blocked" THEN failed("mkdir", h)
        ELSE IF h.files[heic_path] \notin Openable THEN failed("open", made)
        ELSE IF save = "fail" THEN failed("save", made)
        ELSE IF save = "partial"
        THEN failed("save", [made EXCEPT !.files[out] = "partial"])
        ELSE [raised |-> FALSE, ret |-> SomePath(out),
              converter |-> Converter(Append(conv.converted_files, <<heic_path, out>>),
                                      conv.failed_conversions),
              hfs |-> [made EXCEPT !.files[out] = "converted"]]

\* the HeicConverter held in the variables
ThisConverter == Converter(converted_files, failed_conversions)

\* HeicConverter.__init__
HeicConverterInit ==
    /\ converted_files = <<>>
    /\ failed_conversions = <<>>
    /\ convLog = <<>>

(***************************************************************************)
(* cli_interface.py and main.py                                            *)
(***************************************************************************)
\* the empty dictionary process_with_progress returns
EmptyDict == [kind |-> "empty", files_processed |-> 0, files_failed |-> 0,
              processed_files |-> <<>>, failed_files |-> <<>>]

\* check_directories: [raised, ok, fs]; answer is what the user answers to
\* "Continue anyway?"
check_directories(f, answer) ==
    IF f.export = "absent" THEN [raised |-> FALSE, ok |-> FALSE, fs |-> f]
    ELSE IF f.export = "file" THEN [raised |-> TRUE, ok |-> FALSE, fs |-> f]
    ELSE IF f.present = {} /\ ~answer THEN [raised |-> FALSE, ok |-> FALSE, fs |-> f]
    ELSE IF f.backup = "blocked" THEN [raised |-> FALSE, ok |-> FALSE, fs |-> f]
    ELSE [raised |-> FALSE, ok |-> TRUE, fs |-> [f EXCEPT !.backup = "dir"]]

\* display_file_scan_results: [raised, categorized]; self.processor.categorizer
\* is read, an attribute FileProcessor.__init__ does not set; categorized
\* says that batch_categorize(files) ran on the categorizer
display_file_scan_results(p, files) ==
    IF files = <<>> THEN [raised |-> FALSE, categorized |-> FALSE]
    ELSE IF "categorizer" \notin DOMAIN p THEN [raised |-> TRUE, categorized |-> FALSE]
    ELSE [raised |-> FALSE, categorized |-> TRUE]

\* process_with_progress: [results, processor, fs, categorized, phases];
\* phases lists the calls made: "Scanning" for _scan_export_directory,
\* "Summarizing" for _generate_summary; answer is what the user answers to
\* "Proceed with processing?"
process_with_progress(p, f, dry_run, answer) ==
    LET files == _scan_export_directory(f)
        shown == display_file_scan_results(p, files)
        done == process_all_files(p, f, dry_run)
    IN  IF files = <<>>
        THEN [results |-> EmptyDict, processor |-> p, fs |-> f,
              categorized |-> FALSE, phases |-> <<"Scanning">>]
        ELSE IF shown.raised
        THEN [results |-> Raised, processor |-> p, fs |-> f,
              categorized |-> FALSE, phases |-> <<"Scanning">>]
        ELSE IF ~dry_run /\ ~answer
        THEN [results |-> EmptyDict, processor |-> p, fs |-> f,
              categorized |-> shown.categorized, phases |-> <<"Scanning">>]
        ELSE IF done.ret.kind = "raised"
        THEN [results |-> Raised, processor |-> done.processor, fs |-> done.fs,
              categorized |-> shown.categorized,
              phases |-> <<"Scanning", "Scanning">>]
        ELSE [results |-> _generate_summary(done.processor),
              processor |-> done.processor, fs |-> done.fs,
              categorized |-> shown.categorized,
              phases |-> <<"Scanning", "Scanning", "Summarizing", "Summarizing">>]

\* main, lines 54-84: [status, ended]; the value under 'failed_files' of a
\* summary is a list, and comparing it with 0 raises TypeError, which the
\* handler of Exception turns into status 1; the empty dictionary gives the
\* default 0
main_exit(results, dry_run) ==
    IF results.kind = "raised" THEN [status |-> 1, ended |-> "unexpected error"]
    ELSE IF results.kind = "summary" THEN [status |-> 1, ended |-> "unexpected error"]
    ELSE [status |-> 0, ended |-> "completed"]

\* main() before check_directories
MainStart(dry_run) ==
    [pc |-> "start", dry_run |-> dry_run, results |-> EmptyDict,
     status |-> 0, ended |-> "", phases |-> <<>>]

CliInit == cli = MainStart(FALSE)

RECURSIVE SeqsUpTo(_, _)
SeqsUpTo(S, n) ==
    IF n = 0 THEN { <<>> }
    ELSE LET shorter == SeqsUpTo(S, n - 1)
         IN  shorter \cup { Append(s, x) : s \in shorter, x \in S }

\* the lists batch_categorize is called on
BatchInputs == SeqsUpTo(BatchPool, MaxBatch)

ClassifyBatches == SeqsUpTo(ClassifyPool, MaxBatch)

NoCall == [path |-> <<>>,
           outcome |-> [raised |-> FALSE, category |-> "none"]]
NoBatch == [valid |-> FALSE, paths |-> <<>>, prior |-> FALSE]

(***************************************************************************)
(* The categorizer as a state machine.                                     *)
(***************************************************************************)
\* FileCategorizer.__init__
CategorizerInit ==
    /\ categorized_files = EmptyGrouping
    /\ lastBatch = NoBatch
    /\ call = NoCall

\* ExifHandler.__init__
ExifHandlerInit ==
    /\ missing_exif_files = <<>>
    /\ tsLog = <<>>

CatInit ==
    /\ disk \in { [image |-> c, video |-> NoHachoir] : c \in CatContents }
    /\ CategorizerInit
    /\ ExifHandlerInit
    /\ ProcessorInit
    /\ HeicConverterInit
    /\ hfs = HeicDisk("absent", "dir")
    /\ CliInit
    /\ fs = EmptyExport

\* categorizer.categorize_file(file_path)
CategorizeFile(file_path) ==
    /\ call' = [path |-> file_path, outcome |-> categorize_file(file_path)]
    /\ UNCHANGED <<disk, categorized_files, lastBatch, exifVars, procVars, heicVars, cliVars>>

\* categorizer.batch_categorize(file_paths)
BatchCategorize(file_paths) ==
    /\ categorized_files' = batch_categorize(categorized_files, file_paths).grouping
    /\ lastBatch' = [valid |-> TRUE, paths |-> file_paths,
                     prior |-> (categorized_files # EmptyGrouping)]
    /\ UNCHANGED <<disk, call, exifVars, procVars, heicVars, cliVars>>

\* categorizer.clear_categorization()
ClearCategorization ==
    /\ categorized_files' = [c \in FileCategory |-> <<>>]
    /\ lastBatch' = NoBatch
    /\ UNCHANGED <<disk, call, exifVars, procVars, heicVars, cliVars>>

\* the categorizer grouping batches of files
CatNext ==
    \/ \E ps \in BatchInputs : BatchCategorize(ps)
    \/ ClearCategorization

SpecCat == CatInit /\ [][CatNext]_vars

\* the categorizer classifying single files, with or without a grouping held
ClassifyNext ==
    \/ \E p \in CatPaths : CategorizeFile(p)
    \/ \E ps \in ClassifyBatches : BatchCategorize(ps)
    \/ ClearCategorization

SpecClassify == CatInit /\ [][ClassifyNext]_vars

(***************************************************************************)
(* Properties of the categorizer.                                          *)
(***************************************************************************)
Processable == {PHOTO, VIDEO, SCREENSHOT, GENERATED}

\* the category of a path when the content probe gives no signal
ExtensionOnly(file_path) ==
    LET ext == Lower(PathSuffix(file_path))
    IN  IF ext = <<".","a","a","e">> THEN SIDECAR
        ELSE IF ext = <<".","p","n","g">> /\ _is_likely_screenshot(Lower(PathName(file_path)))
             THEN SCREENSHOT
        ELSE IF ext \in PHOTO_EXTENSIONS THEN PHOTO
        ELSE IF ext \in VIDEO_EXTENSIONS THEN VIDEO
        ELSE UNKNOWN

\* C2: categorize_file follows the first-match-wins order on the lower-cased
\* extension: .aae is Sidecar; else .png is Screenshot when the filename
\* matches the screenshot heuristic, else Generated when the content probe
\* flags it, else Photo; else a photo extension is Generated when flagged,
\* else Photo; else a video extension is Video; else Unknown.
C2_DecisionOrder ==
    call # NoCall =>
        LET p == call.path
            ext == Lower(PathSuffix(p))
            shot == _is_likely_screenshot(Lower(PathName(p)))
            flagged == _is_generated_content(p).value
            got == call.outcome.category
        IN  /\ ext = <<".","a","a","e">> => got = SIDECAR
            /\ ext = <<".","p","n","g">> /\ shot => got = SCREENSHOT
            /\ ext = <<".","p","n","g">> /\ ~shot /\ flagged => got = GENERATED
            /\ ext = <<".","p","n","g">> /\ ~shot /\ ~flagged => got = PHOTO
            /\ ext \in PHOTO_EXTENSIONS \ { <<".","p","n","g">> } /\ flagged => got = GENERATED
            /\ ext \in PHOTO_EXTENSIONS \ { <<".","p","n","g">> } /\ ~flagged => got = PHOTO
            /\ ext \in VIDEO_EXTENSIONS => got = VIDEO
            /\ ext \notin ({ <<".","a","a","e">> } \cup PHOTO_EXTENSIONS \cup VIDEO_EXTENSIONS)
                   => got = UNKNOWN

\* a screenshot-named PNG whose content is flagged as generated was
\* classified Screenshot
C2_Witness ==
    /\ call.path = <<"I","M","G","_","3","0","4","2",".","p","n","g">>
    /\ _is_generated_content(call.path).value
    /\ call.outcome.category = SCREENSHOT

C7_NoSidecarProcessable ==
    LET out == get_processable_files(categorized_files)
    IN  /\ DOMAIN out \subseteq Processable
        /\ \A c \in DOMAIN out : \A k \in 1..Len(out[c]) :
               /\ categorize_file(out[c][k]).category \in Processable
               /\ Lower(PathSuffix(out[c][k])) # <<".","a","a","e">>
        /\ \A c \in Processable : \A k \in 1..Len(categorized_files[c]) :
               Lower(PathSuffix(categorized_files[c][k])) # <<".","a","a","e">>

\* a batch holding a sidecar file and a processable file was grouped
C7_Witness ==
    /\ lastBatch.valid
    /\ categorized_files[SIDECAR] # <<>>
    /\ \E c \in Processable : get_processable_files(categorized_files)[c] # <<>>

\* C8: after batch_categorize(paths), whatever was grouped before, the
\* grouping and the counts are those of one call on paths on a fresh
\* categorizer.
C8_BatchIdempotent ==
    lastBatch.valid =>
        LET fresh == batch_categorize(EmptyGrouping, lastBatch.paths).grouping
        IN  /\ categorized_files = fresh
            /\ get_categorization_stats(categorized_files)
                   = get_categorization_stats(fresh)

\* a batch was grouped while an earlier grouping was held, and the sidecar
\* of the earlier one is gone
C8_Witness ==
    /\ lastBatch.valid
    /\ lastBatch.prior
    /\ lastBatch.paths = << <<"p","i","c",".","p","n","g">> >>
    /\ categorized_files[SIDECAR] = <<>>

(***************************************************************************)
(* The timestamp handler as a state machine.                               *)
(***************************************************************************)
GoodA == <<"2","0","2","4",":","0","5",":","0","1"," ","1","2",":","0","0",":","0","0">>
GoodB == <<"2","0","2","0",":","0","1",":","0","1"," ","0","0",":","0","0",":","0","0">>
Loose == <<"2","0","2","1",":","7",":","4"," ","9",":","0","5",":","0","6">>
BadSep == <<"2","0","2","4","-","0","5","-","0","1"," ","1","2",":","0","0",":","0","0">>
BadDay == <<"2","0","2","3",":","0","2",":","2","9"," ","1","2",":","0","0",":","0","0">>

TsValues == {GoodA, GoodB, Loose, BadSep, BadDay}

ExifItems ==
    { ExifEntry(t, v) : t \in TimestampTagSet, v \in TsValues }
    \cup { ExifEntry("Software", <<"1","7",".","4",".","1">>),
           BytesEntry("DateTime", <<"b","'","2","0","2","4",":","0","5",":","0","1"," ","1","2",":","0","0",":","0","0","'">>) }

\* the item lists of at most n items with no tag twice
RECURSIVE ExifLists(_)
ExifLists(n) ==
    IF n = 0 THEN { <<>> }
    ELSE LET shorter == ExifLists(n - 1)
             longer == { Append(e, x) : e \in shorter, x \in ExifItems }
         IN  shorter \cup
             { e \in longer : \A i, j \in 1..Len(e) : i # j => e[i].tag # e[j].tag }

ExifContents ==
    {Corrupt} \cup
    { [exists |-> TRUE, image |-> TRUE, text |-> <<>>, exif |-> e] :
          e \in ExifLists(MaxTags) }

PlainImage == [exists |-> TRUE, image |-> TRUE, text |-> <<>>, exif |-> <<>>]

DateA == Datetime(2024, 5, 1, 12, 0, 0)
DateB == Datetime(2020, 1, 1, 0, 0, 0)

VideoAttrs ==
    { NoAttrs,
      [NoAttrs EXCEPT !["creation_date"] = AttrValue(DateA)],
      [NoAttrs EXCEPT !["date"] = AttrValue(DateB),
                      !["media_creation"] = AttrValue(DateA)],
      [NoAttrs EXCEPT !["creation_date"] = AttrValue(None),
                      !["date"] = AttrValue(DateB)],
      [NoAttrs EXCEPT !["creation_date"] = AttrRaises,
                      !["creation_time"] = AttrValue(DateA)],
      [NoAttrs EXCEPT !["date"] = AttrRaises] }

VideoLinePool ==
    { <<"-"," ","C","r","e","a","t","i","o","n"," ","d","a","t","e",":"," ","2","0","2","4","-","0","5","-","0","1"," ","1","2",":","0","0",":","0","0">>,
      <<"-"," ","D","a","t","e",":"," ","2","0","2","0","-","0","1","-","0","1","T","0","0",":","0","0",":","0","0">>,
      <<"-"," ","C","r","e","a","t","i","o","n"," ","d","a","t","e",":"," ","2","0","2","4","-","1","3","-","4","5"," ","9","9",":","9","9",":","9","9">>,
      <<"-"," ","C","o","m","m","e","n","t",":"," ","2","0","2","4","-","0","5","-","0","1"," ","1","2",":","0","0",":","0","0">>,
      <<"-"," ","D","u","r","a","t","i","o","n",":"," ","1","0"," ","s","e","c">> }

VideoContents ==
    { NoHachoir,
      Video(TRUE, "none", FALSE, NoAttrs, TRUE, <<>>),
      Video(TRUE, "raise", FALSE, NoAttrs, TRUE, <<>>),
      Video(TRUE, "ok", FALSE, NoAttrs, TRUE, <<>>) }
    \cup { Video(TRUE, "ok", TRUE, a, TRUE, <<>>) : a \in VideoAttrs }
    \cup { Video(TRUE, "ok", TRUE, a, FALSE, ls) :
               a \in VideoAttrs, ls \in SeqsUpTo(VideoLinePool, MaxLines) }

TsPaths == { <<"a",".","j","p","g">>, <<"C","L","I","P",".","M","O","V">>, GoneJpg }

ExifInit ==
    /\ disk \in { [image |-> c, video |-> NoHachoir] : c \in ExifContents }
                \cup { [image |-> PlainImage, video |-> v] : v \in VideoContents }
    /\ CategorizerInit
    /\ ExifHandlerInit
    /\ ProcessorInit
    /\ HeicConverterInit
    /\ hfs = HeicDisk("absent", "dir")
    /\ CliInit
    /\ fs = EmptyExport

\* exif_handler.extract_timestamp(file_path)
ExtractTimestamp(file_path) ==
    /\ Len(tsLog) < MaxTsCalls
    /\ LET r == extract_timestamp(missing_exif_files, file_path)
       IN  /\ missing_exif_files' = r.missing
           /\ tsLog' = Append(tsLog, [path |-> file_path, raised |-> r.raised,
                                      value |-> r.value])
    /\ UNCHANGED <<disk, catVars, procVars, heicVars, cliVars>>

ExifNext == \E p \in TsPaths : ExtractTimestamp(p)

SpecExif == ExifInit /\ [][ExifNext]_vars

(***************************************************************************)
(* The file processor as a state machine.                                  *)
(***************************************************************************)
ProcInit ==
    /\ disk = [image |-> PlainImage, video |-> NoHachoir]
    /\ CategorizerInit
    /\ ExifHandlerInit
    /\ ProcessorInit
    /\ HeicConverterInit
    /\ hfs = HeicDisk("absent", "dir")
    /\ CliInit
    /\ fs \in { Filesystem(e, pr, b) :
                    e \in {"dir"}, pr \in SUBSET (1..Len(ExportPool)),
                    b \in {"dir", "absent", "blocked"} }
              \cup { Filesystem(e, {}, b) :
                         e \in {"file", "absent"}, b \in {"dir", "absent", "blocked"} }

\* processor.process_all_files(dry_run)
ProcessAllFiles(dry_run) ==
    /\ run.n < MaxRuns
    /\ LET r == process_all_files(ThisProcessor, fs, dry_run)
       IN  /\ fs' = r.fs
           /\ processed_files' = r.processor.processed_files
           /\ failed_files' = r.processor.failed_files
           /\ used_timestamps' = r.processor.used_timestamps
           /\ conversion_log' = r.processor.conversion_log
           /\ run' = [n |-> run.n + 1, dry_run |-> dry_run, ret |-> r.ret,
                      before |-> fs, processor |-> ThisProcessor]
    /\ UNCHANGED <<disk, catVars, exifVars, heicVars, cliVars>>

\* processor._process_single_file(file_path, target_dir, dry_run)
ProcessSingleFile(file_path, target_dir, dry_run) ==
    /\ LET r == _process_single_file(ThisProcessor, fs, file_path, target_dir, dry_run)
       IN  /\ fs' = r.fs
           /\ processed_files' = r.processor.processed_files
           /\ failed_files' = r.processor.failed_files
           /\ used_timestamps' = r.processor.used_timestamps
           /\ conversion_log' = r.processor.conversion_log
    /\ UNCHANGED <<run, disk, catVars, exifVars, heicVars, cliVars>>

ProcNext ==
    \/ \E dry_run \in BOOLEAN : ProcessAllFiles(dry_run)
    \/ \E i \in 1..Len(_scan_export_directory(fs)), dry_run \in BOOLEAN :
           ProcessSingleFile(_scan_export_directory(fs)[i],
                             PathJoin(backup_dir, <<"p","h","o","t","o","s">>), dry_run)

SpecProc == ProcInit /\ [][ProcNext]_vars

(***************************************************************************)
(* The HEIC converter as a state machine.                                  *)
(***************************************************************************)
HeicInit ==
    /\ disk = [image |-> PlainImage, video |-> NoHachoir]
    /\ CategorizerInit
    /\ ExifHandlerInit
    /\ ProcessorInit
    /\ fs = EmptyExport
    /\ HeicConverterInit
    /\ hfs \in { HeicDisk(jpg, out) : jpg \in {"absent", "jpeg"},
                                       out \in {"dir", "absent", "blocked"} }
    /\ CliInit

\* converter.convert_heic_to_jpeg(heic_path, output_dir)
ConvertHeicToJpeg(heic_path, output_dir, save) ==
    /\ Len(convLog) < MaxConversions
    /\ LET r == convert_heic_to_jpeg(ThisConverter, hfs, heic_path, output_dir, save)
       IN  /\ hfs' = r.hfs
           /\ converted_files' = r.converter.converted_files
           /\ failed_conversions' = r.converter.failed_conversions
           /\ convLog' = Append(convLog,
                  [heic_path |-> heic_path, output_dir |-> output_dir,
                   raised |-> r.raised, ret |-> r.ret,
                   before |-> [converter |-> ThisConverter, hfs |-> hfs],
                   after |-> [converter |-> r.converter, hfs |-> r.hfs]])
    /\ UNCHANGED <<disk, catVars, exifVars, procVars, cliVars>>

HeicNext ==
    \E heic_path \in HeicSources, output_dir \in OutputDirs,
       save \in {"ok", "fail", "partial"} :
        ConvertHeicToJpeg(heic_path, output_dir, save)

SpecHeic == HeicInit /\ [][HeicNext]_vars

(***************************************************************************)
(* main() as a state machine: check_directories, process_with_progress,   *)
(* then the exit.                                                          *)
(***************************************************************************)
MainInit ==
    /\ disk = [image |-> PlainImage, video |-> NoHachoir]
    /\ CategorizerInit
    /\ ExifHandlerInit
    /\ ProcessorInit
    /\ HeicConverterInit
    /\ hfs = HeicDisk("absent", "dir")
    /\ fs \in { Filesystem(e, pr, b) :
                    e \in {"dir"}, pr \in SUBSET (1..Len(ExportPool)),
                    b \in {"dir", "absent", "blocked"} }
              \cup { Filesystem(e, {}, b) :
                         e \in {"file", "absent"}, b \in {"dir", "absent", "blocked"} }
    /\ cli \in { MainStart(dry_run) : dry_run \in BOOLEAN }

\* main, lines 49-52: cli.check_directories()
CheckDirectories(answer) ==
    /\ cli.pc = "start"
    /\ LET r == check_directories(fs, answer)
       IN  /\ fs' = r.fs
           /\ cli' = IF r.raised
                     THEN [cli EXCEPT !.pc = "exit", !.status = 1, !.ended = "uncaught"]
                     ELSE IF ~r.ok
                     THEN [cli EXCEPT !.pc = "exit", !.status = 1,
                                      !.ended = "directory issues"]
                     ELSE [cli EXCEPT !.pc = "checked"]
    /\ UNCHANGED <<disk, catVars, exifVars, heicVars,
                   processed_files, failed_files, used_timestamps, conversion_log, run>>

\* main, lines 56-59: cli.process_with_progress(dry_run), cli.display_results
ProcessWithProgress(answer) ==
    /\ cli.pc = "checked"
    /\ LET r == process_with_progress(ThisProcessor, fs, cli.dry_run, answer)
       IN  /\ fs' = r.fs
           /\ processed_files' = r.processor.processed_files
           /\ failed_files' = r.processor.failed_files
           /\ used_timestamps' = r.processor.used_timestamps
           /\ conversion_log' = r.processor.conversion_log
           /\ categorized_files' =
                  IF r.categorized
                  THEN batch_categorize(categorized_files,
                                        _scan_export_directory(fs)).grouping
                  ELSE categorized_files
           /\ cli' = [cli EXCEPT !.pc = "processed", !.results = r.results,
                                 !.phases = r.phases]
    /\ UNCHANGED <<disk, lastBatch, call, exifVars, heicVars, run>>

\* main, lines 61-84: the exit status
MainExit ==
    /\ cli.pc = "processed"
    /\ LET r == main_exit(cli.results, cli.dry_run)
       IN  cli' = [cli EXCEPT !.pc = "exit", !.status = r.status, !.ended = r.ended]
    /\ UNCHANGED <<disk, catVars, exifVars, procVars, heicVars>>

MainNext ==
    \/ \E answer \in BOOLEAN : CheckDirectories(answer)
    \/ \E answer \in BOOLEAN : ProcessWithProgress(answer)
    \/ MainExit

SpecMain == MainInit /\ [][MainNext]_vars

(***************************************************************************)
(* Properties of the timestamp handler.                                    *)
(***************************************************************************)
\* the value of the item of exif_data with the tag, parsed; None when the
\* tag is absent or its value does not parse
TagValue(exif_data, tag) ==
    LET at == {k \in 1..Len(exif_data) : exif_data[k].tag = tag}
        e == exif_data[CHOOSE k \in at : TRUE]
    IN  IF at = {} \/ ~e.str THEN None ELSE Strptime(e.value, ":").value

\* the calls of the log made on a readable image
ImageCalls ==
    {i \in 1..Len(tsLog) :
         /\ ~_is_video_file(tsLog[i].path)
         /\ FileAt(tsLog[i].path).exists /\ FileAt(tsLog[i].path).image}

\* C4: extract_timestamp never returns the value of a lower-ranked
\* timestamp tag while a higher-ranked tag is present and parses (to another
\* value), in whatever order the tags are stored.
C4_RankOrder ==
    \A i \in ImageCalls :
        LET exif_data == FileAt(tsLog[i].path).exif
        IN  \A hi, lo \in 1..Len(TIMESTAMP_TAGS) :
                LET vhi == TagValue(exif_data, TIMESTAMP_TAGS[hi])
                    vlo == TagValue(exif_data, TIMESTAMP_TAGS[lo])
                IN  hi < lo /\ ~vhi.none /\ ~vlo.none /\ vhi # vlo
                        => tsLog[i].value # vlo

\* C5: an image is unresolved only if none of its timestamp tags parses: a
\* tag that does not parse is passed over for the next one.
C5_UnparsableSkipped ==
    \A i \in ImageCalls :
        tsLog[i].value.none =>
            \A t \in TimestampTagSet :
                TagValue(FileAt(tsLog[i].path).exif, t).none

\* C6: extract_timestamp never raises, and missing_exif_files holds a path
\* once for every call on it that returned None and for no other call.
C6_MissingRecorded ==
    /\ \A i \in 1..Len(tsLog) : ~tsLog[i].raised
    /\ \A p \in TsPaths :
           Cardinality({k \in 1..Len(missing_exif_files) : missing_exif_files[k] = p})
               = Cardinality({i \in 1..Len(tsLog) :
                                 tsLog[i].path = p /\ tsLog[i].value.none})

\* a video resolved from its metadata and then an image without EXIF data
\* recorded as missing
C6_Witness ==
    /\ Len(tsLog) = 2
    /\ tsLog[1].path = <<"C","L","I","P",".","M","O","V">> /\ ~tsLog[1].value.none
    /\ tsLog[2].path = <<"a",".","j","p","g">> /\ tsLog[2].value.none
    /\ missing_exif_files = << <<"a",".","j","p","g">> >>

(***************************************************************************)
(* Properties of the file processor.                                       *)
(***************************************************************************)
\* C9: when export_dir is no directory, process_all_files ends with an
\* exception and returns no summary.
C9_FailFast ==
    run.n > 0 /\ run.before.export # "dir" => run.ret.kind = "raised"

\* C10: a dry run returns a summary, leaves the filesystem as it was, and
\* its processed and failed counts are those of a real run from the same
\* state whenever that one returns a summary.
C10_DryRunParity ==
    run.n > 0 /\ run.dry_run =>
        LET real == process_all_files(run.processor, run.before, FALSE)
        IN  /\ run.ret.kind = "summary"
            /\ fs = run.before
            /\ real.ret.kind = "summary" =>
                   /\ run.ret.files_processed = real.ret.files_processed
                   /\ run.ret.files_failed = real.ret.files_failed

\* a dry run over a directory with candidates left the absent backup
\* directory absent, where the real run creates it
C10_Witness ==
    /\ run.n > 0 /\ run.dry_run
    /\ _scan_export_directory(run.before) # <<>>
    /\ run.before.backup = "absent"
    /\ fs.backup = "absent"
    /\ process_all_files(run.processor, run.before, FALSE).fs.backup = "dir"
\* C11: when process_all_files returns a summary, files_processed plus
\* files_failed is the number of scanned candidates that are no sidecar
\* files.
C11_Accounting ==
    run.n > 0 /\ run.ret.kind = "summary" =>
        LET all_files == _scan_export_directory(run.before)
            candidates == {i \in 1..Len(all_files) :
                               Lower(PathSuffix(all_files[i])) \notin sidecar_exts}
        IN  run.ret.files_processed + run.ret.files_failed = Cardinality(candidates)

\* the scanned candidates with the .aae extension
SidecarCandidates(f) ==
    LET all_files == _scan_export_directory(f)
    IN  {all_files[i] : i \in {k \in 1..Len(all_files) :
                                   Lower(PathSuffix(all_files[k])) \in sidecar_exts}}

\* C14: after a run that is no dry run no .aae candidate is left in the
\* export tree, and a dry run leaves every .aae candidate where it was.
C14_SidecarDeleted ==
    run.n > 0 /\ run.ret.kind = "summary" =>
        IF run.dry_run
        THEN SidecarCandidates(fs) = SidecarCandidates(run.before)
        ELSE SidecarCandidates(fs) = {}

(***************************************************************************)
(* Further properties of the categorizer.                                  *)
(***************************************************************************)
\* C15: a file is classified Screenshot only if its lower-cased filename
\* contains 'screenshot', 'screen shot', 'screen recording', 'screen_' or
\* 'capture', or begins with 'img_3' and ends with '.png'.
C15_ScreenshotPatterns ==
    call # NoCall /\ call.outcome.category = SCREENSHOT =>
        LET filename == Lower(PathName(call.path))
        IN  \/ \E pattern \in {<<"s","c","r","e","e","n","s","h","o","t">>, <<"s","c","r","e","e","n"," ","s","h","o","t">>, <<"s","c","r","e","e","n"," ","r","e","c","o","r","d","i","n","g">>,
                                <<"s","c","r","e","e","n","_">>, <<"c","a","p","t","u","r","e">>} : Contains(filename, pattern)
            \/ StartsWith(filename, <<"i","m","g","_","3">>) /\ EndsWith(filename, <<".","p","n","g">>)

\* C18: a file with a photo extension, no screenshot name if it is a PNG,
\* and a stem of 36 characters with exactly 4 hyphens is classified
\* Generated, whether or not it can be opened.
C18_UuidGenerated ==
    call # NoCall =>
        LET ext == Lower(PathSuffix(call.path))
            stem == PathStem(call.path)
        IN  /\ ext \in photo_exts
            /\ ext \in screenshot_exts => ~_is_likely_screenshot(Lower(PathName(call.path)))
            /\ Len(stem) = 36 /\ Count(stem, "-") = 4
            => call.outcome.category = GENERATED

\* the paths of file_paths, in order, that name a file of the category
RECURSIVE InCategory(_, _)
InCategory(file_paths, category) ==
    IF file_paths = <<>> THEN <<>>
    ELSE LET p == Head(file_paths)
         IN  (IF FileAt(p).exists /\ categorize_file(p).category = category
              THEN <<p>> ELSE <<>>) \o InCategory(Tail(file_paths), category)

VideoCalls == {i \in 1..Len(tsLog) : _is_video_file(tsLog[i].path)}

\* the preference positions of the fields the metadata holds a value for
FieldsPresent(attrs) ==
    {k \in 1..Len(VIDEO_FIELDS) :
         attrs[VIDEO_FIELDS[k]].state = "value" /\ ~attrs[VIDEO_FIELDS[k]].value.none}

\* C16: for a video whose metadata the backend reads, the result is the
\* value of the first field present in the preference order; the text dump
\* decides only when none of the four fields is present; and the result is
\* None exactly when the backend gives no metadata or neither step gives a
\* value.
C16_VideoOrder ==
    \A i \in VideoCalls :
        LET v == disk.video
            readable == /\ v.hachoir /\ tsLog[i].path \notin MissingPaths
                        /\ v.parser = "ok" /\ v.metadata
            present == FieldsPresent(v.attrs)
            first == CHOOSE k \in present : \A j \in present : k <= j
            scanned == IF v.noText THEN None ELSE ScanLines(v.lines)
        IN  tsLog[i].value =
                IF ~readable THEN None
                ELSE IF present # {} THEN v.attrs[VIDEO_FIELDS[first]].value
                ELSE scanned
(***************************************************************************)
(* Properties of the HEIC converter.                                       *)
(***************************************************************************)
\* C13: convert_heic_to_jpeg never raises; a call that returns None adds
\* one entry to failed_conversions and none to converted_files and leaves
\* the source file as it was; a call that returns a path adds one entry to
\* converted_files and none to failed_conversions.
C13_FailureRecorded ==
    \A i \in 1..Len(convLog) :
        LET c == convLog[i]
        IN  /\ ~c.raised
            /\ c.ret.none =>
                   /\ Len(c.after.converter.failed_conversions)
                          = Len(c.before.converter.failed_conversions) + 1
                   /\ c.after.converter.failed_conversions
                          [Len(c.after.converter.failed_conversions)][1] = c.heic_path
                   /\ c.after.converter.converted_files
                          = c.before.converter.converted_files
                   /\ c.after.hfs.files[c.heic_path] = c.before.hfs.files[c.heic_path]
            /\ ~c.ret.none =>
                   /\ c.after.converter.converted_files
                          = Append(c.before.converter.converted_files,
                                   <<c.heic_path, c.ret.path>>)
                   /\ c.after.converter.failed_conversions
                          = c.before.converter.failed_conversions

\* C19: the output path of a successful conversion named no file before
\* the call.
C19_NoOverwrite ==
    \A i \in 1..Len(convLog) :
        ~convLog[i].ret.none =>
            convLog[i].before.hfs.files[convLog[i].ret.path] = "absent"

(***************************************************************************)
(* Properties of main().                                                   *)
(***************************************************************************)
\* C12: a run that passed the directory check and has ended exits with
\* status 0, and not through the handler of unexpected errors, when no
\* failed file is recorded, and with a status other than 0 when one is.
C12_ExitStatus ==
    cli.pc = "exit" /\ cli.ended \in {"completed", "unexpected error"} =>
        IF Len(failed_files) = 0
        THEN cli.status = 0 /\ cli.ended # "unexpected error"
        ELSE cli.status # 0

\* C17: a run that passed the directory check over a tree with candidates
\* and has ended scanned the tree exactly once and produced the summary
\* exactly once, after the scan.
C17_OneShot ==
    /\ cli.pc = "exit" /\ cli.ended \in {"completed", "unexpected error"}
    /\ _scan_export_directory(fs) # <<>>
    => /\ Cardinality({k \in 1..Len(cli.phases) : cli.phases[k] = "Scanning"}) = 1
       /\ Cardinality({k \in 1..Len(cli.phases) : cli.phases[k] = "Summarizing"}) = 1
       /\ cli.phases[1] = "Scanning"
====
